---- MODULE Spec2Model ----
(***************************************************************************)
(* Model of .github/scripts/forward-port-missing/forward_port_missing.py:  *)
(* the forward-port determination pipeline run by main() (partition by     *)
(* release, delta extraction, comparison engine, aggregation, JSON         *)
(* formatting) and the Comparison value object.                            *)
(*                                                                         *)
(* Python str values are TLA+ strings; their characters are given by       *)
(* StrTable, so that split(), startswith(), int() and "+" are computed on  *)
(* characters.  A PR is the record of its number and its base ref: the     *)
(* other fields (title, user, head, label, url) are copied to the output   *)
(* and decide nothing here.  dicts are functions, frozensets are sets; the   *)
(* insertion order of the inner dicts of grouped_comparisons, which the    *)
(* output shows, is kept beside them in key_order.                         *)
(* A raised exception is the record [raise |-> <exception name>].          *)
(***************************************************************************)
EXTENDS Integers, Sequences, FiniteSets, TLC

VARIABLES
    prs,                    \* frozenset[PR] returned by load_data_from_json
    slices_in_head_by_pr,   \* Mapping[PR, frozenset[str]]
    slices_in_base_by_pr,   \* Mapping[PR, frozenset[str]]
    packages_by_release,    \* Mapping[UbuntuRelease, set[str]]
    ubuntu_releases,        \* list[UbuntuRelease], main(): sorted(packages_by_release.keys())
    slices_per_branch,      \* content already present per release branch (never read by the script)
    prs_by_ubuntu_release,  \* result of _group_prs_by_ubuntu_release
    new_slices_by_pr,       \* result of _group_new_slices_by_pr
    comparisons,            \* result of _get_comparisons
    grouped_comparisons,    \* result of _get_grouped_comparisons
    key_order,              \* per PR, the keys of grouped_comparisons[pr] in insertion order
    output,                 \* the list that format_forward_port_json dumps
    pc,                     \* position in main()
    raised,                 \* "none", or the exception that ended the run
    cmp_args,               \* arguments of a direct Comparison(...) construction
    cmp                     \* its result

vars == <<prs, slices_in_head_by_pr, slices_in_base_by_pr, packages_by_release,
          ubuntu_releases, slices_per_branch, prs_by_ubuntu_release,
          new_slices_by_pr, comparisons, grouped_comparisons, key_order, output,
          pc, raised, cmp_args, cmp>>

----------------------------------------------------------------------------
(* Bounds and universes *)

\* PR numbers are 1..MaxPRs; at most MaxPRs PRs are open
MaxPRs == 3

\* slice names / package names
Slices == {"foo", "bar"}

\* the version tokens that occur
Versions == {"20.04", "22.04", "24.04", "99.99"}

\* the base refs that occur
Branches == {"ubuntu-20.04", "ubuntu-22.04", "ubuntu-24.04", "ubuntu-99.99", "main"}

AllStrings == Versions \cup Branches

UbuntuPrefix == <<"u", "b", "u", "n", "t", "u", "-">>

\* the characters of each string
StrTable ==
    [s \in AllStrings |->
        CASE s = "20.04" -> <<"2", "0", ".", "0", "4">>
          [] s = "22.04" -> <<"2", "2", ".", "0", "4">>
          [] s = "24.04" -> <<"2", "4", ".", "0", "4">>
          [] s = "99.99" -> <<"9", "9", ".", "9", "9">>
          [] s = "ubuntu-20.04" -> UbuntuPrefix \o <<"2", "0", ".", "0", "4">>
          [] s = "ubuntu-22.04" -> UbuntuPrefix \o <<"2", "2", ".", "0", "4">>
          [] s = "ubuntu-24.04" -> UbuntuPrefix \o <<"2", "4", ".", "0", "4">>
          [] s = "ubuntu-99.99" -> UbuntuPrefix \o <<"9", "9", ".", "9", "9">>
          [] s = "main" -> <<"m", "a", "i", "n">>]

\* the string with the given characters
Str(chars) == CHOOSE s \in AllStrings : StrTable[s] = chars

----------------------------------------------------------------------------
(* Python helpers *)

Raise(e) == [raise |-> e]

\* a call that returns a dict or a set and may raise yields Return(value) or Raise(e)
Return(value) == [return |-> value]

IsRaise(x) == "raise" \in DOMAIN x

\* Mapping.get(k, default)
Get(m, k, default) == IF k \in DOMAIN m THEN m[k] ELSE default

\* an empty dict
EmptyDict == [k \in {} |-> {}]

\* str.startswith
StartsWith(chars, prefix) ==
    /\ Len(chars) >= Len(prefix)
    /\ SubSeq(chars, 1, Len(prefix)) = prefix

\* index of the first occurrence of sep in chars, 0 when there is none
RECURSIVE Find(_, _, _)
Find(chars, sep, i) ==
    IF i > Len(chars) THEN 0
    ELSE IF chars[i] = sep THEN i
    ELSE Find(chars, sep, i + 1)

\* str.split(sep): the list of the parts
RECURSIVE Split(_, _)
Split(chars, sep) ==
    LET i == Find(chars, sep, 1)
    IN IF i = 0 THEN <<chars>>
       ELSE <<SubSeq(chars, 1, i - 1)>> \o Split(SubSeq(chars, i + 1, Len(chars)), sep)

\* str.split(sep, 1)[1]: what follows the first sep
AfterFirst(chars, sep) == SubSeq(chars, Find(chars, sep, 1) + 1, Len(chars))

DigitValue(c) ==
    CASE c = "0" -> 0 [] c = "1" -> 1 [] c = "2" -> 2 [] c = "3" -> 3 [] c = "4" -> 4
      [] c = "5" -> 5 [] c = "6" -> 6 [] c = "7" -> 7 [] c = "8" -> 8 [] c = "9" -> 9

\* int(str) of a string of decimal digits
RECURSIVE ToInt(_)
ToInt(chars) ==
    IF chars = <<>> THEN 0
    ELSE 10 * ToInt(SubSeq(chars, 1, Len(chars) - 1)) + DigitValue(chars[Len(chars)])

\* the ascending list of a set of integers
RECURSIVE SortedInts(_)
SortedInts(S) ==
    IF S = {} THEN <<>>
    ELSE LET m == CHOOSE x \in S : \A y \in S : x <= y
         IN <<m>> \o SortedInts(S \ {m})

----------------------------------------------------------------------------
(* UbuntuRelease *)

\* the table init_distro_info fills from distro-info; "99.99" is no release
_VERSION_TO_CODENAME ==
    [v \in {"20.04", "22.04", "24.04"} |->
        CASE v = "20.04" -> "Focal Fossa"
          [] v = "22.04" -> "Jammy Jellyfish"
          [] v = "24.04" -> "Noble Numbat"]

UbuntuRelease(version, codename) == [version |-> version, codename |-> codename]

\* year, month = version.split("."); int(year), int(month), for each version
VersionTuples ==
    [v \in Versions |->
        LET parts == Split(StrTable[v], ".")
        IN <<ToInt(parts[1]), ToInt(parts[2])>>]

\* UbuntuRelease.version_tuple
version_tuple(r) == VersionTuples[r.version]

\* tuple[int, int] < tuple[int, int]
TupleLt(a, b) == a[1] < b[1] \/ (a[1] = b[1] /\ a[2] < b[2])

\* UbuntuRelease.__lt__
UbuntuRelease_lt(a, b) == TupleLt(version_tuple(a), version_tuple(b))

\* the dataclass __eq__: both fields
UbuntuRelease_eq(a, b) == a.version = b.version /\ a.codename = b.codename

\* __gt__, __le__, __ge__ as functools.total_ordering derives them from __lt__
UbuntuRelease_gt(a, b) == ~UbuntuRelease_lt(a, b) /\ ~UbuntuRelease_eq(a, b)

UbuntuRelease_le(a, b) == UbuntuRelease_lt(a, b) \/ UbuntuRelease_eq(a, b)

UbuntuRelease_ge(a, b) == ~UbuntuRelease_lt(a, b)

\* UbuntuRelease.from_branch_name, for each base ref
BranchReleases ==
    [branch \in Branches |->
        LET chars == StrTable[branch]
        IN IF ~StartsWith(chars, UbuntuPrefix) THEN Raise("AssertionError")
           ELSE LET version == Str(AfterFirst(chars, "-"))
                IN IF version \notin DOMAIN _VERSION_TO_CODENAME THEN Raise("ValueError")
                   ELSE UbuntuRelease(version, _VERSION_TO_CODENAME[version])]

from_branch_name(branch) == BranchReleases[branch]

\* sorted(releases) for releases of distinct versions
RECURSIVE SortedReleases(_)
SortedReleases(S) ==
    IF S = {} THEN <<>>
    ELSE LET m == CHOOSE x \in S : \A y \in S \ {x} : UbuntuRelease_lt(x, y)
         IN <<m>> \o SortedReleases(S \ {m})

Range(seq) == {seq[i] : i \in 1..Len(seq)}

----------------------------------------------------------------------------
(* PR *)

PR(number, base_ref) == [number |-> number, base_ref |-> base_ref]

\* PR.ubuntu_release
ubuntu_release(pr) == from_branch_name(pr.base_ref)

\* PR.__lt__
PR_lt(a, b) == a.number < b.number

\* sorted(prs) for PRs of distinct numbers
RECURSIVE SortedPRs(_)
SortedPRs(S) ==
    IF S = {} THEN <<>>
    ELSE LET m == CHOOSE x \in S : \A y \in S \ {x} : PR_lt(x, y)
         IN <<m>> \o SortedPRs(S \ {m})

----------------------------------------------------------------------------
(* Delta extraction *)

\* _group_new_slices_by_pr with a bug: no comparison of the key sets, the PRs
\* of the head map are processed with .get on both maps
_group_new_slices_by_pr_lenient(in_head, in_base) ==
    LET new_slices(pr) == Get(in_head, pr, {}) \ Get(in_base, pr, {})
    IN Return([pr \in {p \in DOMAIN in_head : new_slices(p) # {}} |-> new_slices(pr)])

\* _group_new_slices_by_pr
_group_new_slices_by_pr(in_head, in_base) ==
    IF DOMAIN in_base # DOMAIN in_head THEN Raise("ValueError")
    ELSE LET new_slices(pr) == Get(in_head, pr, {}) \ Get(in_base, pr, {})
         IN Return([pr \in {p \in DOMAIN in_head : new_slices(p) # {}} |-> new_slices(pr)])

----------------------------------------------------------------------------
(* Comparison *)

\* Comparison with a bug: __post_init__ compares with > and accepts equal releases
ComparisonAcceptsEqual(pr, slices, pr_future, slices_future, discontinued_slices) ==
    LET release == ubuntu_release(pr)
        future_release == ubuntu_release(pr_future)
    IN IF IsRaise(release) THEN release
       ELSE IF IsRaise(future_release) THEN future_release
       ELSE IF UbuntuRelease_gt(release, future_release) THEN Raise("ValueError")
       ELSE [pr |-> pr, slices |-> slices, pr_future |-> pr_future,
             slices_future |-> slices_future,
             discontinued_slices |-> discontinued_slices]

\* Comparison(...) with its __post_init__
Comparison(pr, slices, pr_future, slices_future, discontinued_slices) ==
    LET release == ubuntu_release(pr)
        future_release == ubuntu_release(pr_future)
    IN IF IsRaise(release) THEN release
       ELSE IF IsRaise(future_release) THEN future_release
       ELSE IF UbuntuRelease_ge(release, future_release) THEN Raise("ValueError")
       ELSE [pr |-> pr, slices |-> slices, pr_future |-> pr_future,
             slices_future |-> slices_future,
             discontinued_slices |-> discontinued_slices]

\* missing_slices with a bug: the operands of the first difference are swapped
missing_slices_swapped(c) ==
    LET missing == c.slices_future \ c.slices
    IN IF missing = {} THEN {}
       ELSE IF c.discontinued_slices # {} THEN missing \ c.discontinued_slices
       ELSE missing

\* missing_slices with a bug: the discontinued slices are not taken out
missing_slices_no_exemption(c) == c.slices \ c.slices_future

\* Comparison.missing_slices
missing_slices(c) ==
    LET missing == c.slices \ c.slices_future
    IN IF missing = {} THEN {}
       ELSE IF c.discontinued_slices # {} THEN missing \ c.discontinued_slices
       ELSE missing

\* Comparison.is_forward_ported
is_forward_ported(c) == missing_slices(c) = {}

\* Comparison.future_ubuntu_release
future_ubuntu_release(c) == ubuntu_release(c.pr_future)

----------------------------------------------------------------------------
(* Partition by release *)

\* _group_prs_by_ubuntu_release with a bug: no membership test before the
\* insertion, a PR into a release that is not a key ends the call
_group_prs_by_ubuntu_release_unchecked(all_prs, releases) ==
    LET _prs == SortedPRs(all_prs)
        bad == {i \in 1..Len(_prs) : IsRaise(ubuntu_release(_prs[i]))
                                        \/ ubuntu_release(_prs[i]) \notin Range(releases)}
        first == _prs[CHOOSE i \in bad : \A j \in bad : i <= j]
    IN IF bad # {}
       THEN IF IsRaise(ubuntu_release(first)) THEN ubuntu_release(first) ELSE Raise("KeyError")
       ELSE Return([r \in Range(releases) |-> {pr \in all_prs : ubuntu_release(pr) = r}])

\* _group_prs_by_ubuntu_release: the first PR, in number order, whose base ref
\* does not resolve ends the call with its exception
_group_prs_by_ubuntu_release(all_prs, releases) ==
    LET _prs == SortedPRs(all_prs)
        bad == {i \in 1..Len(_prs) : IsRaise(ubuntu_release(_prs[i]))}
    IN IF bad # {}
       THEN ubuntu_release(_prs[CHOOSE i \in bad : \A j \in bad : i <= j])
       ELSE Return([r \in Range(releases) |-> {pr \in all_prs : ubuntu_release(pr) = r}])

----------------------------------------------------------------------------
(* Comparison engine *)

\* every PR of the partition
PartitionPRs(by_release) == UNION {by_release[r] : r \in DOMAIN by_release}

\* LoopTriples with a bug: only the next release that has PRs is compared against
LoopTriplesNextOnly(by_release) ==
    {t \in PartitionPRs(by_release) \X (DOMAIN by_release) \X PartitionPRs(by_release) :
        /\ \E release \in DOMAIN by_release :
              /\ t[1] \in by_release[release]
              /\ UbuntuRelease_gt(t[2], release)
              /\ ~\E between \in DOMAIN by_release :
                    /\ by_release[between] # {}
                    /\ UbuntuRelease_gt(between, release)
                    /\ UbuntuRelease_gt(t[2], between)
        /\ t[3] \in by_release[t[2]]}

\* LoopTriples with a bug: the future releases are taken with >=, the PRs of
\* a release are paired with those of the release itself too
LoopTriplesOwnRelease(by_release) ==
    {t \in PartitionPRs(by_release) \X (DOMAIN by_release) \X PartitionPRs(by_release) :
        /\ \E release \in DOMAIN by_release :
              /\ t[1] \in by_release[release]
              /\ UbuntuRelease_ge(t[2], release)
        /\ t[3] \in by_release[t[2]]}

\* the (pr, future_release, pr_future) triples the nested loops of
\* _get_comparisons visit
LoopTriples(by_release) ==
    {t \in PartitionPRs(by_release) \X (DOMAIN by_release) \X PartitionPRs(by_release) :
        /\ \E release \in DOMAIN by_release :
              /\ t[1] \in by_release[release]
              /\ UbuntuRelease_gt(t[2], release)
        /\ t[3] \in by_release[t[2]]}

\* _get_comparisons with a bug: packages_by_release[future_release] in place of
\* .get(future_release, frozenset())
_get_comparisons_subscript(by_release, new_by_pr, packages) ==
    LET built ==
            {Comparison(t[1], Get(new_by_pr, t[1], {}),
                        t[3], Get(new_by_pr, t[3], {}),
                        Get(new_by_pr, t[1], {}) \ Get(packages, t[2], {}))
                : t \in LoopTriples(by_release)}
    IN IF \E t \in LoopTriples(by_release) : t[2] \notin DOMAIN packages
       THEN Raise("KeyError")
       ELSE IF \E b \in built : IsRaise(b)
       THEN CHOOSE b \in built : IsRaise(b)
       ELSE Return(built)

\* _get_comparisons with a bug: the set of comparisons outlives the call, and
\* a pair that is in it already is not returned again
_get_comparisons_seen(by_release, new_by_pr, packages) ==
    LET built ==
            {Comparison(t[1], Get(new_by_pr, t[1], {}),
                        t[3], Get(new_by_pr, t[3], {}),
                        Get(new_by_pr, t[1], {}) \ Get(packages, t[2], {}))
                : t \in LoopTriples(by_release)}
    IN IF \E b \in built : IsRaise(b)
       THEN CHOOSE b \in built : IsRaise(b)
       ELSE Return(built \ comparisons)

\* _get_comparisons
_get_comparisons(by_release, new_by_pr, packages) ==
    LET built ==
            {Comparison(t[1], Get(new_by_pr, t[1], {}),
                        t[3], Get(new_by_pr, t[3], {}),
                        Get(new_by_pr, t[1], {}) \ Get(packages, t[2], {}))
                : t \in LoopTriples(by_release)}
    IN IF \E b \in built : IsRaise(b)
       THEN CHOOSE b \in built : IsRaise(b)
       ELSE Return(built)

----------------------------------------------------------------------------
(* Aggregator *)

\* GroupComparisons with a bug: only the comparisons are grouped, no PR and no
\* future release is added with an empty entry
GroupComparisonsNoFill(by_release, comps) ==
    LET keys == {c.pr : c \in comps}
        of(pr) == {c \in comps : c.pr = pr}
        inner(pr) == {future_ubuntu_release(c) : c \in of(pr)}
    IN Return([pr \in keys |->
                [r \in inner(pr) |-> {c \in of(pr) : future_ubuntu_release(c) = r}]])

\* GroupComparisons with a bug: the future releases are taken with >=, the
\* release of the PR itself is added with an empty entry
GroupComparisonsOwnRelease(by_release, comps) ==
    LET keys == {c.pr : c \in comps} \cup PartitionPRs(by_release)
        of(pr) == {c \in comps : c.pr = pr}
        inner(pr) ==
            {future_ubuntu_release(c) : c \in of(pr)}
                \cup {r \in DOMAIN by_release : UbuntuRelease_ge(r, ubuntu_release(pr))}
    IN IF \E pr \in keys : IsRaise(ubuntu_release(pr))
       THEN ubuntu_release(CHOOSE pr \in keys : IsRaise(ubuntu_release(pr)))
       ELSE Return([pr \in keys |->
                [r \in inner(pr) |-> {c \in of(pr) : future_ubuntu_release(c) = r}]])

\* the dict that _get_grouped_comparisons builds from the comparisons
GroupComparisons(by_release, comps) ==
    LET keys == {c.pr : c \in comps} \cup PartitionPRs(by_release)
        of(pr) == {c \in comps : c.pr = pr}
        inner(pr) ==
            {future_ubuntu_release(c) : c \in of(pr)}
                \cup {r \in DOMAIN by_release : UbuntuRelease_gt(r, ubuntu_release(pr))}
    IN IF \E pr \in keys : IsRaise(ubuntu_release(pr))
       THEN ubuntu_release(CHOOSE pr \in keys : IsRaise(ubuntu_release(pr)))
       ELSE Return([pr \in keys |->
                [r \in inner(pr) |-> {c \in of(pr) : future_ubuntu_release(c) = r}]])

\* the orders in which a loop over the set S can meet its elements
Orders(S) == {seq \in [1..Cardinality(S) -> S] : Range(seq) = S}

\* the insertion orders of the keys of grouped_comparisons[pr]: first the
\* future releases of the comparisons of pr, in the order the loop over the
\* frozenset of comparisons meets them, then the other future releases in
\* the order of prs_by_ubuntu_release, which is that of the sorted releases
InnerKeyOrders(pr, by_release, comps) ==
    LET compared == {future_ubuntu_release(c) : c \in {x \in comps : x.pr = pr}}
        future_releases ==
            SelectSeq(SortedReleases(DOMAIN by_release),
                      LAMBDA r : UbuntuRelease_gt(r, ubuntu_release(pr)) /\ r \notin compared)
    IN {first \o future_releases : first \in Orders(compared)}

\* the insertion orders there can be, for every PR of keys
RECURSIVE KeyOrders(_, _, _)
KeyOrders(keys, by_release, comps) ==
    IF keys = {} THEN {EmptyDict}
    ELSE LET pr == CHOOSE x \in keys : TRUE
         IN {(pr :> inner) @@ rest :
                inner \in InnerKeyOrders(pr, by_release, comps),
                rest \in KeyOrders(keys \ {pr}, by_release, comps)}

\* _get_grouped_comparisons: the comparisons and their grouping
_get_grouped_comparisons(by_release, new_by_pr, packages) ==
    LET comps == _get_comparisons(by_release, new_by_pr, packages)
    IN IF IsRaise(comps) THEN comps
       ELSE LET grouped == GroupComparisons(by_release, comps.return)
            IN IF IsRaise(grouped) THEN grouped
               ELSE Return([comparisons |-> comps.return, grouped |-> grouped.return])

\* forward_porting_status with a bug: a release without comparisons is passed over
forward_porting_status_skip_empty(slices, by_future_release) ==
    IF slices = {} THEN TRUE
    ELSE ~\E r \in DOMAIN by_future_release :
            /\ by_future_release[r] # {}
            /\ ~\E c \in by_future_release[r] : is_forward_ported(c)

\* forward_porting_status with a bug: no early return on empty slices
forward_porting_status_no_early_return(slices, by_future_release) ==
    ~\E r \in DOMAIN by_future_release :
        ~\E c \in by_future_release[r] : is_forward_ported(c)

\* forward_porting_status
forward_porting_status(slices, by_future_release) ==
    IF slices = {} THEN TRUE
    ELSE ~\E r \in DOMAIN by_future_release :
            ~\E c \in by_future_release[r] : is_forward_ported(c)

----------------------------------------------------------------------------
(* Output *)

\* "ubuntu-" + version, for each version
BranchKeys == [v \in Versions |-> Str(UbuntuPrefix \o StrTable[v])]

\* "ubuntu-" + future_release.version
BranchKey(r) == BranchKeys[r.version]

\* ForwardPorts with a bug: every compared PR is listed, forward-ported or not
ForwardPortsUnfiltered(by_future_release) ==
    [k \in {BranchKey(r) : r \in DOMAIN by_future_release} |->
        LET r == CHOOSE x \in DOMAIN by_future_release : BranchKey(x) = k
        IN SortedInts({c.pr_future.number : c \in by_future_release[r]})]

\* output_pr["forward_ports"]; the releases of one dict have distinct versions
ForwardPorts(by_future_release) ==
    [k \in {BranchKey(r) : r \in DOMAIN by_future_release} |->
        LET r == CHOOSE x \in DOMAIN by_future_release : BranchKey(x) = k
            forward_ports == {c \in by_future_release[r] : missing_slices(c) = {}}
        IN SortedInts({c.pr_future.number : c \in forward_ports})]

\* the keys of output_pr["forward_ports"] in the order json.dumps writes them:
\* the insertion order, which is the order of comparisons_by_future_release
ForwardPortsKeys(inner_order) == [i \in 1..Len(inner_order) |-> BranchKey(inner_order[i])]

\* format_forward_port_json with add_extra_info = False: the list it dumps;
\* grouped with orders is the dict grouped_comparisons
format_forward_port_json(grouped, orders, new_by_pr) ==
    LET order == SortedPRs(DOMAIN grouped)
    IN [i \in 1..Len(order) |->
            [number |-> order[i].number,
             base |-> order[i].base_ref,
             forward_ported |->
                forward_porting_status(Get(new_by_pr, order[i], {}), grouped[order[i]]),
             forward_ports |-> ForwardPorts(grouped[order[i]]),
             forward_ports_keys |-> ForwardPortsKeys(orders[order[i]])]]

----------------------------------------------------------------------------
(* main() *)

\* the releases distro-info knows
TableReleases ==
    {UbuntuRelease(v, _VERSION_TO_CODENAME[v]) : v \in DOMAIN _VERSION_TO_CODENAME}

\* the sets of at most MaxPRs PRs numbered 1, 2, ... with base refs among refs
PRSets(refs) ==
    UNION {{{PR(n, f[n]) : n \in 1..k} : f \in [1..k -> refs]} : k \in 0..MaxPRs}

\* the base refs of the releases distro-info knows
ReleaseBranches == {"ubuntu-20.04", "ubuntu-22.04", "ubuntu-24.04"}

\* the oldest release distro-info knows
OldestRelease == CHOOSE r \in TableReleases : \A x \in TableReleases \ {r} : UbuntuRelease_lt(r, x)

\* nothing computed yet
NothingComputed ==
    /\ prs_by_ubuntu_release = EmptyDict
    /\ new_slices_by_pr = EmptyDict
    /\ comparisons = {}
    /\ grouped_comparisons = EmptyDict
    /\ key_order = EmptyDict
    /\ output = <<>>
    /\ pc = "main"
    /\ raised = "none"

NoComparisonCall ==
    /\ cmp_args = [called |-> FALSE]
    /\ cmp = [state |-> "none"]

\* what a release ships of the packages that Slices are cut from: all of
\* them, or all but foo
PackageSets == {Slices, Slices \ {"foo"}}

\* the package inventories: the oldest release ships every package
PackageInventories ==
    {p \in [TableReleases -> PackageSets] : p[OldestRelease] = Slices}

\* the PRs into the releases distro-info knows
ReleasePRSets == PRSets(ReleaseBranches)

\* main() after load_data_from_json on a file whose PRs target the releases
\* of the file, whose base branches hold none of Slices and whose oldest
\* release ships every package
Init ==
    /\ prs \in ReleasePRSets
    /\ slices_in_head_by_pr \in [prs -> SUBSET Slices]
    /\ slices_in_base_by_pr = [pr \in prs |-> {}]
    /\ packages_by_release \in PackageInventories
    /\ ubuntu_releases = SortedReleases(DOMAIN packages_by_release)
    /\ slices_per_branch = [r \in TableReleases |-> {}]
    /\ NothingComputed
    /\ NoComparisonCall

Inputs == <<prs, slices_in_head_by_pr, slices_in_base_by_pr, packages_by_release,
            ubuntu_releases, slices_per_branch, cmp_args, cmp>>

\* main(): prs_by_ubuntu_release = _group_prs_by_ubuntu_release(prs, ubuntu_releases)
Partition ==
    /\ pc = "main"
    /\ LET result == _group_prs_by_ubuntu_release(prs, ubuntu_releases)
       IN IF IsRaise(result)
          THEN /\ pc' = "error"
               /\ raised' = result.raise
               /\ UNCHANGED prs_by_ubuntu_release
          ELSE /\ pc' = "partitioned"
               /\ prs_by_ubuntu_release' = result.return
               /\ UNCHANGED raised
    /\ UNCHANGED <<Inputs, new_slices_by_pr, comparisons, grouped_comparisons, key_order,
                   output>>

\* main(): new_slices_by_pr = _group_new_slices_by_pr(...)
Delta ==
    /\ pc = "partitioned"
    /\ LET result == _group_new_slices_by_pr(slices_in_head_by_pr, slices_in_base_by_pr)
       IN IF IsRaise(result)
          THEN /\ pc' = "error"
               /\ raised' = result.raise
               /\ UNCHANGED new_slices_by_pr
          ELSE /\ pc' = "delta"
               /\ new_slices_by_pr' = result.return
               /\ UNCHANGED raised
    /\ UNCHANGED <<Inputs, prs_by_ubuntu_release, comparisons, grouped_comparisons,
                   key_order, output>>

\* main(): grouped_comparisons = _get_grouped_comparisons(...)
Compare ==
    /\ pc = "delta"
    /\ LET result == _get_grouped_comparisons(prs_by_ubuntu_release, new_slices_by_pr,
                                              packages_by_release)
       IN IF IsRaise(result)
          THEN /\ pc' = "error"
               /\ raised' = result.raise
               /\ UNCHANGED <<comparisons, grouped_comparisons, key_order>>
          ELSE /\ pc' = "grouped"
               /\ comparisons' = result.return.comparisons
               /\ grouped_comparisons' = result.return.grouped
               /\ key_order' \in KeyOrders(DOMAIN grouped_comparisons',
                                           prs_by_ubuntu_release, comparisons')
               /\ UNCHANGED raised
    /\ UNCHANGED <<Inputs, prs_by_ubuntu_release, new_slices_by_pr, output>>

\* main(): print_pipe_friendly(format_forward_port_json(...))
Format ==
    /\ pc = "grouped"
    /\ output' = format_forward_port_json(grouped_comparisons, key_order, new_slices_by_pr)
    /\ pc' = "done"
    /\ UNCHANGED <<Inputs, prs_by_ubuntu_release, new_slices_by_pr, comparisons,
                   grouped_comparisons, key_order, raised>>

Next == Partition \/ Delta \/ Compare \/ Format

Spec == Init /\ [][Next]_vars

----------------------------------------------------------------------------
(* main() on a file that also tells what each release branch holds *)

\* what a release branch holds of Slices: nothing, or foo
BranchContents == {{}, {"foo"}}

\* as Init, with every package shipped everywhere, the content of the release
\* branches drawn too, and the base set of a PR being the content of its branch
InitInventory ==
    /\ prs \in ReleasePRSets
    /\ slices_per_branch \in [TableReleases -> BranchContents]
    /\ slices_in_head_by_pr \in [prs -> SUBSET Slices]
    /\ slices_in_base_by_pr = [pr \in prs |-> slices_per_branch[ubuntu_release(pr)]]
    /\ packages_by_release = [r \in TableReleases |-> Slices]
    /\ ubuntu_releases = SortedReleases(DOMAIN packages_by_release)
    /\ NothingComputed
    /\ NoComparisonCall

SpecInventory == InitInventory /\ [][Next]_vars

----------------------------------------------------------------------------
(* main() on a file with PRs into any branch and any set of releases *)

\* a release of the file whose codename is not the one distro-info gives
ShortCodenameRelease == UbuntuRelease("22.04", "Jammy")

\* the sets of releases of distinct versions a file can list
ReleaseSets ==
    {K \in SUBSET (TableReleases \cup {ShortCodenameRelease}) :
        \A a \in K : \A b \in K : a.version = b.version => a = b}

\* as Init, the base refs being any of Branches, the releases any of
\* ReleaseSets, and every PR adding the slice foo
InitPartition ==
    /\ prs \in PRSets(Branches)
    /\ slices_in_head_by_pr = [pr \in prs |-> {"foo"}]
    /\ slices_in_base_by_pr = [pr \in prs |-> {}]
    /\ packages_by_release \in {[r \in K |-> Slices] : K \in ReleaseSets}
    /\ ubuntu_releases = SortedReleases(DOMAIN packages_by_release)
    /\ slices_per_branch = [r \in TableReleases |-> {}]
    /\ NothingComputed
    /\ NoComparisonCall

SpecPartition == InitPartition /\ [][Next]_vars

----------------------------------------------------------------------------
(* _get_grouped_comparisons called with a package inventory of its own *)

\* the inventories of a direct call: an entry, with every package, for the
\* oldest release and for any of the later ones
PartialInventories ==
    {[r \in K |-> Slices] : K \in {L \in SUBSET TableReleases : OldestRelease \in L}}

\* the partition and the new slices are those of the PRs
InitEngine ==
    /\ prs \in ReleasePRSets
    /\ slices_in_head_by_pr \in [prs -> SUBSET Slices]
    /\ slices_in_base_by_pr = [pr \in prs |-> {}]
    /\ packages_by_release \in PartialInventories
    /\ ubuntu_releases = SortedReleases(TableReleases)
    /\ slices_per_branch = [r \in TableReleases |-> {}]
    /\ prs_by_ubuntu_release = _group_prs_by_ubuntu_release(prs, ubuntu_releases).return
    /\ new_slices_by_pr =
            _group_new_slices_by_pr(slices_in_head_by_pr, slices_in_base_by_pr).return
    /\ comparisons = {}
    /\ grouped_comparisons = EmptyDict
    /\ key_order = EmptyDict
    /\ output = <<>>
    /\ pc = "delta"
    /\ raised = "none"
    /\ NoComparisonCall

\* a second call of _get_grouped_comparisons and of format_forward_port_json
\* with the arguments of the first
CompareAgain ==
    /\ pc = "done"
    /\ LET result == _get_grouped_comparisons(prs_by_ubuntu_release, new_slices_by_pr,
                                              packages_by_release)
       IN IF IsRaise(result)
          THEN /\ pc' = "error"
               /\ raised' = result.raise
               /\ UNCHANGED <<comparisons, grouped_comparisons, key_order, output>>
          ELSE /\ pc' = "again"
               /\ comparisons' = result.return.comparisons
               /\ grouped_comparisons' = result.return.grouped
               /\ key_order' \in KeyOrders(DOMAIN grouped_comparisons',
                                           prs_by_ubuntu_release, comparisons')
               /\ output' = format_forward_port_json(grouped_comparisons', key_order',
                                                     new_slices_by_pr)
               /\ UNCHANGED raised
    /\ UNCHANGED <<Inputs, prs_by_ubuntu_release, new_slices_by_pr>>

NextEngine == Compare \/ Format \/ CompareAgain

SpecEngine == InitEngine /\ [][NextEngine]_vars

----------------------------------------------------------------------------
(* Comparison(...) called on its own *)

\* the PRs there can be
PRUniverse == {PR(n, b) : n \in 1..MaxPRs, b \in Branches}

InitCmp ==
    /\ cmp_args \in [pr : PRUniverse, slices : SUBSET Slices,
                     pr_future : PRUniverse, slices_future : SUBSET Slices,
                     discontinued_slices : SUBSET Slices]
    /\ cmp = [state |-> "none"]
    /\ prs = {}
    /\ slices_in_head_by_pr = EmptyDict
    /\ slices_in_base_by_pr = EmptyDict
    /\ packages_by_release = EmptyDict
    /\ ubuntu_releases = <<>>
    /\ slices_per_branch = EmptyDict
    /\ prs_by_ubuntu_release = EmptyDict
    /\ new_slices_by_pr = EmptyDict
    /\ comparisons = {}
    /\ grouped_comparisons = EmptyDict
    /\ key_order = EmptyDict
    /\ output = <<>>
    /\ pc = "idle"
    /\ raised = "none"

\* Comparison(pr=..., slices=..., pr_future=..., slices_future=..., discontinued_slices=...)
Construct ==
    /\ cmp.state = "none"
    /\ LET result == Comparison(cmp_args.pr, cmp_args.slices, cmp_args.pr_future,
                                cmp_args.slices_future, cmp_args.discontinued_slices)
       IN cmp' = IF IsRaise(result)
                 THEN [state |-> "raised", raise |-> result.raise]
                 ELSE [state |-> "built", value |-> result]
    /\ UNCHANGED <<prs, slices_in_head_by_pr, slices_in_base_by_pr, packages_by_release,
                   ubuntu_releases, slices_per_branch, prs_by_ubuntu_release,
                   new_slices_by_pr, comparisons, grouped_comparisons, key_order,
                   output, pc, raised, cmp_args>>

NextCmp == Construct

SpecCmp == InitCmp /\ [][NextCmp]_vars

----------------------------------------------------------------------------
(* main() with head and base maps that were not built from one PR list *)

\* the head sets and the base sets of the maps: nothing, or foo
MapContents == {{}, {"foo"}}

\* the maps from any of the PRs to MapContents
ContentMaps(all_prs) == UNION {[K -> MapContents] : K \in SUBSET all_prs}

\* as Init, every package shipped everywhere, the head map and the base map
\* each covering any of the PRs
InitMaps ==
    /\ prs \in ReleasePRSets
    /\ slices_in_head_by_pr \in ContentMaps(prs)
    /\ slices_in_base_by_pr \in ContentMaps(prs)
    /\ packages_by_release = [r \in TableReleases |-> Slices]
    /\ ubuntu_releases = SortedReleases(DOMAIN packages_by_release)
    /\ slices_per_branch = [r \in TableReleases |-> {}]
    /\ NothingComputed
    /\ NoComparisonCall

SpecMaps == InitMaps /\ [][Next]_vars

----------------------------------------------------------------------------
(* main() on a file whose base branches hold slices already *)

\* as Init, the head set and the base set of every PR drawn from MapContents
InitContent ==
    /\ prs \in ReleasePRSets
    /\ slices_in_head_by_pr \in [prs -> MapContents]
    /\ slices_in_base_by_pr \in [prs -> MapContents]
    /\ packages_by_release \in PackageInventories
    /\ ubuntu_releases = SortedReleases(DOMAIN packages_by_release)
    /\ slices_per_branch = [r \in TableReleases |-> {}]
    /\ NothingComputed
    /\ NoComparisonCall

SpecContent == InitContent /\ [][Next]_vars

----------------------------------------------------------------------------
(* missing_slices() and is_forward_ported() called on a Comparison built on its own *)

\* c.missing_slices() and c.is_forward_ported() on the Comparison just built
Evaluate ==
    /\ cmp.state = "built"
    /\ cmp' = [state |-> "evaluated", value |-> cmp.value,
               missing |-> missing_slices(cmp.value),
               forward_ported |-> is_forward_ported(cmp.value)]
    /\ UNCHANGED <<prs, slices_in_head_by_pr, slices_in_base_by_pr, packages_by_release,
                   ubuntu_releases, slices_per_branch, prs_by_ubuntu_release,
                   new_slices_by_pr, comparisons, grouped_comparisons, key_order,
                   output, pc, raised, cmp_args>>

NextMissing == Construct \/ Evaluate

SpecMissing == InitCmp /\ [][NextMissing]_vars

----------------------------------------------------------------------------
(* The comparison operators of UbuntuRelease called on two releases *)

\* the codenames a release can carry: those of distro-info, and the one of
\* ShortCodenameRelease that a data file gives through from_dict
Codenames == {_VERSION_TO_CODENAME[v] : v \in DOMAIN _VERSION_TO_CODENAME}
                \cup {ShortCodenameRelease.codename}

\* the releases from_dict and from_branch_name can build
ReleaseUniverse == {UbuntuRelease(v, c) : v \in Versions, c \in Codenames}

InitOrder ==
    /\ cmp_args \in [a : ReleaseUniverse, b : ReleaseUniverse]
    /\ cmp = [state |-> "none"]
    /\ prs = {}
    /\ slices_in_head_by_pr = EmptyDict
    /\ slices_in_base_by_pr = EmptyDict
    /\ packages_by_release = EmptyDict
    /\ ubuntu_releases = <<>>
    /\ slices_per_branch = EmptyDict
    /\ prs_by_ubuntu_release = EmptyDict
    /\ new_slices_by_pr = EmptyDict
    /\ comparisons = {}
    /\ grouped_comparisons = EmptyDict
    /\ key_order = EmptyDict
    /\ output = <<>>
    /\ pc = "idle"
    /\ raised = "none"

\* a < b, a == b, b < a, a > b, a <= b, a >= b
Order ==
    /\ cmp.state = "none"
    /\ cmp' = [state |-> "ordered",
               lt |-> UbuntuRelease_lt(cmp_args.a, cmp_args.b),
               eq |-> UbuntuRelease_eq(cmp_args.a, cmp_args.b),
               lt_swapped |-> UbuntuRelease_lt(cmp_args.b, cmp_args.a),
               gt |-> UbuntuRelease_gt(cmp_args.a, cmp_args.b),
               le |-> UbuntuRelease_le(cmp_args.a, cmp_args.b),
               ge |-> UbuntuRelease_ge(cmp_args.a, cmp_args.b)]
    /\ UNCHANGED <<prs, slices_in_head_by_pr, slices_in_base_by_pr, packages_by_release,
                   ubuntu_releases, slices_per_branch, prs_by_ubuntu_release,
                   new_slices_by_pr, comparisons, grouped_comparisons, key_order,
                   output, pc, raised, cmp_args>>

NextOrder == Order

SpecOrder == InitOrder /\ [][NextOrder]_vars

----------------------------------------------------------------------------
(* What the claims speak of *)

\* the new content of a Change: head set minus base set
NewContent(pr) == slices_in_head_by_pr[pr] \ slices_in_base_by_pr[pr]

\* the known Releases strictly later than the target Release of pr
FutureReleases(pr) ==
    {r \in Range(ubuntu_releases) :
        TupleLt(VersionTuples[ubuntu_release(pr).version], VersionTuples[r.version])}

\* the record of pr in the output
RecordOf(pr) == output[CHOOSE i \in DOMAIN output : output[i].number = pr.number]

\* the Changes of the partition
Changes == UNION {prs_by_ubuntu_release[r] : r \in DOMAIN prs_by_ubuntu_release}

\* every candidate Change of the future Release r adds only content other than that of pr
OnlyDifferentContent(pr, r) ==
    /\ grouped_comparisons[pr][r] # {}
    /\ \A c \in grouped_comparisons[pr][r] :
          /\ c.slices_future # {}
          /\ c.slices_future \cap NewContent(pr) = {}

\* the verdict of pr is what the Comparison sets of its future Releases say
VerdictIsEveryReleaseCovered(pr) ==
    LET verdict == RecordOf(pr).forward_ported
        sets == grouped_comparisons[pr]
    IN /\ verdict <=> \A r \in DOMAIN sets : \E c \in sets[r] : missing_slices(c) = {}
       /\ (\E r \in DOMAIN sets : sets[r] = {}) => ~verdict

C2_AsStated ==
    pc = "done" =>
        \A pr \in Changes :
            (\A r \in FutureReleases(pr) :
                NewContent(pr) \cap Get(packages_by_release, r, {}) = {})
                => RecordOf(pr).forward_ported

\* the Comparisons of the ordered pair (pr, pr_future)
ComparisonsOf(pr, pr_future) ==
    {c \in comparisons : c.pr = pr /\ c.pr_future = pr_future}

\* release(a) < release(b), read off the (major, minor) versions
TargetsEarlier(a, b) ==
    TupleLt(VersionTuples[ubuntu_release(a).version], VersionTuples[ubuntu_release(b).version])

\* C4: _get_comparisons returns exactly one Comparison for every ordered pair
\* of Changes of the partition with release(pr) < release(pr_future), whatever
\* lies between the two Releases, and nothing else; each Comparison carries the
\* new content of pr and of pr_future (empty when there is none).
C4_Comparisons ==
    pc \in {"grouped", "done"} =>
        /\ \A pr \in Changes : \A pr_future \in Changes :
              Cardinality(ComparisonsOf(pr, pr_future))
                  = IF TargetsEarlier(pr, pr_future) THEN 1 ELSE 0
        /\ \A c \in comparisons :
              /\ c.pr \in Changes
              /\ c.pr_future \in Changes
              /\ c.slices = NewContent(c.pr)
              /\ c.slices_future = NewContent(c.pr_future)

\* C4 happens: a Change is compared with a Change two Releases later although
\* a Change targets the Release between them, and some compared Change has no
\* new content
C4_Witness ==
    /\ pc = "grouped"
    /\ \E c \in comparisons : \E between \in Changes :
          /\ TargetsEarlier(c.pr, between)
          /\ TargetsEarlier(between, c.pr_future)
    /\ \E c \in comparisons : c.slices_future = {} /\ c.slices # {}

\* the structure of the grouped mapping: every Change of the partition is a
\* key, and its inner keys are the known Releases later than its target
GroupedKeys ==
    /\ DOMAIN grouped_comparisons = Changes
    /\ \A pr \in Changes : DOMAIN grouped_comparisons[pr] = FutureReleases(pr)

\* the only Change there is targets the oldest of three known Releases
LoneChangeIntoOldest(pr) ==
    /\ Changes = {pr}
    /\ Len(ubuntu_releases) = 3
    /\ ubuntu_release(pr) = ubuntu_releases[1]

\* both later Releases are listed with nobody covering them, and the verdict is false
NothingCovers(pr) ==
    /\ DOMAIN RecordOf(pr).forward_ports
          = {BranchKey(ubuntu_releases[2]), BranchKey(ubuntu_releases[3])}
    /\ \A k \in DOMAIN RecordOf(pr).forward_ports : RecordOf(pr).forward_ports[k] = <<>>
    /\ ~RecordOf(pr).forward_ported

CoveringNumbers(pr, r) ==
    {pr_future.number : pr_future \in
        {p \in prs_by_ubuntu_release[r] :
            \E c \in ComparisonsOf(pr, p) : missing_slices(c) = {}}}

StrictlyAscending(list) == \A i \in DOMAIN list : \A j \in DOMAIN list : i < j => list[i] < list[j]

\* C6: for every Change and every future Release, the forward_ports entry of
\* that Release is the ascending list of the numbers of exactly the Changes
\* targeting it whose Comparison with the Change is forward-ported.
C6_ForwardPorts ==
    pc = "done" =>
        \A pr \in Changes :
            /\ DOMAIN RecordOf(pr).forward_ports = {BranchKey(r) : r \in FutureReleases(pr)}
            /\ \A r \in FutureReleases(pr) :
                  LET entry == RecordOf(pr).forward_ports[BranchKey(r)]
                  IN /\ Range(entry) = CoveringNumbers(pr, r)
                     /\ Len(entry) = Cardinality(CoveringNumbers(pr, r))
                     /\ StrictlyAscending(entry)

\* C6 happens: an entry lists a covering Change and leaves out a Change of the
\* same Release whose content leaves something missing
C6_Witness ==
    /\ pc = "done"
    /\ \E pr \in Changes : \E r \in FutureReleases(pr) :
          /\ RecordOf(pr).forward_ports[BranchKey(r)] # <<>>
          /\ CoveringNumbers(pr, r) # {p.number : p \in prs_by_ubuntu_release[r]}

\* C3 as stated: a Change whose new content items all exist already in every
\* future Release is reported forward-ported, also when no Change targets
\* those Releases.
C3_AsStated ==
    pc = "done" =>
        \A pr \in Changes :
            (\A r \in FutureReleases(pr) : NewContent(pr) \subseteq slices_per_branch[r])
                => RecordOf(pr).forward_ported

\* both Changes have a base ref that from_branch_name resolves
BothResolve == ~IsRaise(ubuntu_release(cmp_args.pr)) /\ ~IsRaise(ubuntu_release(cmp_args.pr_future))

\* C7: constructing a Comparison whose older Change targets a Release equal
\* to or newer than that of pr_future fails with an error; with release(pr) <
\* release(pr_future) it succeeds, with the two Changes as given.
C7_Ordering ==
    (cmp.state # "none" /\ BothResolve) =>
        LET release == ubuntu_release(cmp_args.pr)
            future == ubuntu_release(cmp_args.pr_future)
        IN /\ (release = future \/ TupleLt(VersionTuples[future.version],
                                           VersionTuples[release.version]))
                => (cmp.state = "raised" /\ cmp.raise = "ValueError")
           /\ TupleLt(VersionTuples[release.version], VersionTuples[future.version])
                => /\ cmp.state = "built"
                   /\ cmp.value.pr = cmp_args.pr
                   /\ cmp.value.pr_future = cmp_args.pr_future

\* C7 happens: a construction with both Changes into the same Release has failed
C7_Witness ==
    /\ cmp.state = "raised"
    /\ BothResolve
    /\ ubuntu_release(cmp_args.pr) = ubuntu_release(cmp_args.pr_future)
    /\ cmp_args.pr # cmp_args.pr_future

\* the Changes whose base ref resolves to a Release
Resolved == {pr \in prs : ~IsRaise(ubuntu_release(pr))}

\* C8: the partition has exactly the known Releases as keys; a Change whose
\* target is known is in the set of that Release and in no other; a Change
\* whose resolved target is not known is in no set and does not abort.
C8_Partition ==
    /\ pc \notin {"main", "error"} =>
          /\ DOMAIN prs_by_ubuntu_release = Range(ubuntu_releases)
          /\ \A r \in Range(ubuntu_releases) :
                prs_by_ubuntu_release[r]
                    = {pr \in prs : BranchReleases[pr.base_ref] = r}
    /\ pc = "error" => Resolved # prs

\* C8 happens: partitioned, with a Change into a known Release, a Change whose
\* resolved Release is not known, and a known Release nobody targets
C8_Witness ==
    /\ pc = "partitioned"
    /\ \E pr \in prs : ubuntu_release(pr) \notin Range(ubuntu_releases)
    /\ \E r \in Range(ubuntu_releases) : prs_by_ubuntu_release[r] # {}
    /\ \E r \in Range(ubuntu_releases) : prs_by_ubuntu_release[r] = {}

\* C9 as stated: a Change whose "ubuntu-<version>" base ref is not in the
\* version-to-codename table is dropped, the others are partitioned and the
\* run goes on to its output.
C9_AsStated ==
    (pc # "main" /\ \A pr \in prs : StartsWith(StrTable[pr.base_ref], UbuntuPrefix)) =>
        /\ pc # "error"
        /\ \A r \in Range(ubuntu_releases) :
              prs_by_ubuntu_release[r] = {pr \in Resolved : ubuntu_release(pr) = r}

\* C10: when the package inventory has no entry for a future Release the
\* engine raises nothing; every Comparison into that Release has the whole new
\* content of the older Change as discontinued and is forward-ported.
C10_MissingInventory ==
    /\ pc # "error"
    /\ pc \in {"grouped", "done"} =>
          \A c \in comparisons :
              ubuntu_release(c.pr_future) \notin DOMAIN packages_by_release =>
                  /\ c.discontinued_slices = NewContent(c.pr)
                  /\ missing_slices(c) = {}
                  /\ is_forward_ported(c)

\* C10 happens: a Comparison into a Release without inventory, whose future
\* Change does not add the new content of the older one
C10_Witness ==
    /\ pc = "grouped"
    /\ \E c \in comparisons :
          /\ ubuntu_release(c.pr_future) \notin DOMAIN packages_by_release
          /\ c.slices \ c.slices_future # {}

\* the head map and the base map cover different sets of Changes
KeyMismatch == DOMAIN slices_in_head_by_pr # DOMAIN slices_in_base_by_pr

\* C11: when the head map and the base map do not cover the same Changes,
\* delta extraction ends the run with ValueError: no new content is kept, no
\* Comparison is made and nothing is output, also for the Changes both maps
\* cover.
C11_KeyMismatch ==
    (KeyMismatch /\ pc # "main") =>
        /\ pc \in {"partitioned", "error"}
        /\ pc = "error" => raised = "ValueError"
        /\ new_slices_by_pr = EmptyDict
        /\ comparisons = {}
        /\ grouped_comparisons = EmptyDict
        /\ output = <<>>

\* C11 happens: the run has ended in delta extraction although a Change that
\* both maps cover has new content
C11_Witness ==
    /\ KeyMismatch
    /\ pc = "error"
    /\ \E pr \in DOMAIN slices_in_head_by_pr \cap DOMAIN slices_in_base_by_pr :
          slices_in_head_by_pr[pr] \ slices_in_base_by_pr[pr] # {}

\* C12: a Change whose new content (head set minus base set) is empty is
\* absent from the new-content map and gets forward_ported = true, whatever
\* the package inventories, the other Changes and the future Releases that no
\* Change covers.
C12_VacuousTruth ==
    pc = "done" =>
        \A pr \in Changes :
            NewContent(pr) = {} =>
                /\ pr \notin DOMAIN new_slices_by_pr
                /\ RecordOf(pr).forward_ported

\* C12 happens: a Change whose head adds nothing to a non-empty base has a
\* verdict although no Change targets one of its future Releases, while another
\* Change has new content
C12_Witness ==
    /\ pc = "done"
    /\ \E pr \in Changes :
          /\ slices_in_head_by_pr[pr] # {}
          /\ NewContent(pr) = {}
          /\ \E r \in DOMAIN grouped_comparisons[pr] : grouped_comparisons[pr][r] = {}
    /\ \E pr \in Changes : NewContent(pr) # {}

\* pr targets the newest known Release: no known Release has a greater
\* (major, minor)
TargetsNewest(pr) ==
    \A r \in Range(ubuntu_releases) :
        ~TupleLt(VersionTuples[ubuntu_release(pr).version], VersionTuples[r.version])

\* C13: a Change that targets the newest known Release has no future Release
\* key in the grouped result, no forward_ports entry, and forward_ported =
\* true, whatever its new content and the other Changes.
C13_NewestRelease ==
    pc = "done" =>
        \A pr \in Changes :
            TargetsNewest(pr) =>
                /\ DOMAIN grouped_comparisons[pr] = {}
                /\ DOMAIN RecordOf(pr).forward_ports = {}
                /\ RecordOf(pr).forward_ported

\* C13 happens: the only Change of the run targets the newest known Release,
\* which has older known Releases, and has its verdict
C13_Witness ==
    /\ pc = "done"
    /\ Len(ubuntu_releases) > 1
    /\ \E pr \in Changes :
          /\ Changes = {pr}
          /\ TargetsNewest(pr)
          /\ NewContent(pr) # {}
          /\ RecordOf(pr).forward_ported

\* the Release keys of the sequence keys are in ascending Release order
AscendingReleaseKeys(keys) ==
    \A i \in DOMAIN keys : \A j \in DOMAIN keys :
        i < j => UbuntuRelease_lt(from_branch_name(keys[i]), from_branch_name(keys[j]))

\* C14 as stated: the records of the output are in ascending Change number
\* order, and in every record the future-release keys of forward_ports are in
\* ascending Release order, whatever the iteration order of the Comparison set.
C14_AsStated ==
    pc = "done" =>
        /\ \A i \in DOMAIN output : \A j \in DOMAIN output :
              i < j => output[i].number < output[j].number
        /\ \A i \in DOMAIN output : AscendingReleaseKeys(output[i].forward_ports_keys)

\* the Comparison that was evaluated, with slices_future replaced
WithFuture(slices_future) == [cmp.value EXCEPT !.slices_future = slices_future]

\* C15: for fixed slices and discontinued slices, missing_slices() with a
\* superset of slices_future is a subset of missing_slices() with
\* slices_future, and a forward-ported Comparison stays forward-ported when
\* content is added to the future Change.
C15_Monotonic ==
    cmp.state = "evaluated" =>
        \A more \in SUBSET Slices :
            LET grown == WithFuture(cmp.value.slices_future \cup more)
            IN /\ missing_slices(grown) \subseteq cmp.missing
               /\ cmp.forward_ported => is_forward_ported(grown)

\* C15 happens: an evaluated Comparison misses a slice that a larger
\* slices_future would bring, a discontinued slice being among its slices
C15_Witness ==
    /\ cmp.state = "evaluated"
    /\ cmp.missing # {}
    /\ cmp.value.discontinued_slices \cap cmp.value.slices # {}
    /\ \E more \in SUBSET Slices :
          /\ missing_slices(WithFuture(cmp.value.slices_future \cup more)) # cmp.missing
          /\ is_forward_ported(WithFuture(cmp.value.slices_future \cup more))

\* the always-subtract reference: (slices - slices_future) - discontinued
AlwaysSubtract(c) == (c.slices \ c.slices_future) \ c.discontinued_slices

\* C19: missing_slices(), with its early return and its conditional
\* subtraction, equals the always-subtract reference, and is_forward_ported()
\* is true exactly when the reference is empty.
C19_AlwaysSubtract ==
    cmp.state = "evaluated" =>
        /\ cmp.missing = AlwaysSubtract(cmp.value)
        /\ cmp.forward_ported <=> AlwaysSubtract(cmp.value) = {}

\* C19 happens: an evaluated Comparison is forward-ported only because the
\* slices its future Change lacks are all discontinued
C19_Witness ==
    /\ cmp.state = "evaluated"
    /\ cmp.forward_ported
    /\ cmp.value.slices \ cmp.value.slices_future # {}
    /\ cmp.value.discontinued_slices # {}

\* the second output has the verdicts and the forward ports of the first
SameVerdicts ==
    /\ DOMAIN output' = DOMAIN output
    /\ \A i \in DOMAIN output :
          /\ output'[i].number = output[i].number
          /\ output'[i].forward_ported = output[i].forward_ported
          /\ output'[i].forward_ports = output[i].forward_ports

ExactlyOne(p, q, r) == (p /\ ~q /\ ~r) \/ (~p /\ q /\ ~r) \/ (~p /\ ~q /\ r)

\* C17 as stated: for any two Releases a and b exactly one of a < b, a == b,
\* b < a holds, a < b is the order of the (major, minor) pairs, a == b means
\* that version and codename match, and >, <=, >= agree with that order.
C17_AsStated ==
    cmp.state = "ordered" =>
        /\ cmp.lt <=> TupleLt(VersionTuples[cmp_args.a.version],
                              VersionTuples[cmp_args.b.version])
        /\ cmp.eq <=> cmp_args.a = cmp_args.b
        /\ ExactlyOne(cmp.lt, cmp.eq, cmp.lt_swapped)
        /\ cmp.gt <=> cmp.lt_swapped
        /\ cmp.le <=> (cmp.lt \/ cmp.eq)
        /\ cmp.ge <=> (cmp.lt_swapped \/ cmp.eq)

\* C18: on a partition that _group_prs_by_ubuntu_release produced, the
\* comparison engine never ends with the ordering error of the Comparison
\* constructor (a run that ends with an exception ends in the partition step,
\* before any new content is computed), and every Comparison it builds has
\* release(pr) < release(pr_future) strictly.
C18_Unreachable ==
    /\ pc = "error" => (new_slices_by_pr = EmptyDict /\ comparisons = {})
    /\ \A c \in comparisons :
          TupleLt(VersionTuples[ubuntu_release(c.pr).version],
                  VersionTuples[ubuntu_release(c.pr_future).version])

\* C18 happens: the engine has built several Comparisons on a partition whose
\* releases are not all those of distro-info and that holds several Changes
\* into one Release
C18_Witness ==
    /\ pc = "grouped"
    /\ Cardinality(comparisons) > 1
    /\ ShortCodenameRelease \in DOMAIN prs_by_ubuntu_release
    /\ \E r \in DOMAIN prs_by_ubuntu_release : Cardinality(prs_by_ubuntu_release[r]) > 1

====
